---- MODULE Spec2Model ----
(***************************************************************************)
(* Model of Scripts/S3-Raw-Zone-Lambda-Trigger.py: the AWS Lambda handler  *)
(* lambda_handler(event, context) that starts the Glue job "ad_etl".       *)
(*                                                                         *)
(* Each invocation of the handler is a little sequential process with its  *)
(* own frame (event, context, glue_client, response, e) and a program      *)
(* counter:                                                                *)
(*   idle -> client -> start -> extract -> returned                        *)
(*              \--------\---------\--> except -> returned | raised        *)
(* The call of start_job_run blocks: the invocation stays at "start" from  *)
(* the moment its request is handed to the service until the call returns  *)
(* or raises, and other invocations and the service run meanwhile.         *)
(* The Glue service is the environment: it decides whether boto3.client    *)
(* and start_job_run succeed or raise, whether it accepts a request, what  *)
(* the response holds, and when a started job run completes.               *)
(***************************************************************************)
EXTENDS Integers, Sequences, FiniteSets, TLC

\* ---- bounds -------------------------------------------------------------
NumInvocations == 2

Invocations == 1..NumInvocations

\* ---- inputs the hosting runtime and the remote service can supply -------
Events == {"s3:ObjectCreated:a.json", "s3:ObjectCreated:b.json"}
Contexts == {"ctx"}
RunIds == {"jr_123", "jr_456"}
Descriptions == {"AccessDenied", "EntityNotFoundException"}

\* A description whose __str__ itself raises.
BadStr == "<__str__ raises>"

\* Exception classes the collaborators may raise; KeyboardInterrupt derives
\* from BaseException only, ClientError and KeyError from Exception.
RaisedTypes == {"ClientError", "KeyError", "KeyboardInterrupt"}

\* The failures client construction and the start call may raise: a service
\* error with a description or with no printable one, a KeyError, and an
\* interrupt.
Raisable ==
    {[type |-> "ClientError", arg |-> "AccessDenied"],
     [type |-> "ClientError", arg |-> BadStr],
     [type |-> "KeyError", arg |-> "EntityNotFoundException"],
     [type |-> "KeyboardInterrupt", arg |-> "AccessDenied"]}

\* Responses of start_job_run: boto3 returns a dict; the service normally
\* fills JobRunId and boto3 always adds ResponseMetadata.
Responses ==
    [JobRunId : RunIds, ResponseMetadata : {"200"}]
      \cup [ResponseMetadata : {"200"}]

\* ---- values of unbound locals -------------------------------------------
NoExc == [type |-> "None", arg |-> "None"]
NoResponse == [Unbound |-> TRUE]
NoResult == [Unbound |-> TRUE]

\* ---- pure parts of the handler ------------------------------------------
MsgStarted == "Glue job for ad_etl started successfully"
MsgFailed == "Failed to start Glue job"

\* Keyword arguments of the start_job_run call (the event and the context
\* are in scope but unused).
StartJobRunRequestFromEvent(ev, ctx) == [JobName |-> ev]
StartJobRunRequest(ev, ctx) == [JobName |-> "ad_etl"]

\* repr() of a string, as KeyError.__str__ renders its single argument: the
\* string in quotes.
Repr(k) ==
    CASE k = "JobRunId" -> "'JobRunId'"
      [] k = "AccessDenied" -> "'AccessDenied'"
      [] k = "EntityNotFoundException" -> "'EntityNotFoundException'"
      [] k = BadStr -> "'<__str__ raises>'"

\* str(e)
Str(e) == IF e.type = "KeyError" THEN Repr(e.arg) ELSE e.arg
StrRaises(e) == e.arg = BadStr

\* isinstance(e, Exception): what "except Exception" matches.
CatchesOnlyKeyError(e) == e.type = "KeyError"
IsException(e) == e.type \in {"ClientError", "KeyError"}

HasKey(m, k) == k \in DOMAIN m

\* The dict literal of the success return.
SuccessResultWholeResponse(resp) ==
    [k \in DOMAIN resp \cup {"Message"} |->
        IF k = "Message" THEN MsgStarted ELSE resp[k]]
SuccessResult(resp) ==
    [JobRunId |-> resp["JobRunId"], Message |-> MsgStarted]

\* The dict literal of the failure return.
FailureResultWithRunId(e) ==
    [JobRunId |-> "None", Error |-> Str(e), Message |-> MsgFailed]
FailureResultClassName(e) == [Error |-> e.type, Message |-> MsgFailed]
FailureResult(e) == [Error |-> Str(e), Message |-> MsgFailed]

VARIABLES
    pc,             \* position of each invocation
    event,          \* argument event of each invocation
    context,        \* argument context of each invocation
    glue_client,    \* local glue_client: bound or not
    response,       \* local response
    exc,            \* the exception in flight / bound to e
    result,         \* the mapping returned to the hosting runtime
    module_globals, \* names bound at module level
    requests,       \* start-job-run requests the service has received
    jobRun          \* state of the job run each accepted request started

vars == <<pc, event, context, glue_client, response, exc, result,
          module_globals, requests, jobRun>>

frame(i) == <<pc[i], event[i], context[i], glue_client[i], response[i],
              exc[i], result[i]>>

\* Requests the service received from invocation i.
RequestsOf(i) == {q \in requests : q.inv = i}
Count(i) == Cardinality(RequestsOf(i))

Init ==
    /\ pc = [i \in Invocations |-> "idle"]
    /\ event = [i \in Invocations |-> "None"]
    /\ context = [i \in Invocations |-> "None"]
    /\ glue_client = [i \in Invocations |-> FALSE]
    /\ response = [i \in Invocations |-> NoResponse]
    /\ exc = [i \in Invocations |-> NoExc]
    /\ result = [i \in Invocations |-> NoResult]
    /\ module_globals = {"boto3", "lambda_handler"}
    /\ requests = {}
    /\ jobRun = [i \in Invocations |-> "NONE"]

\* The hosting runtime calls lambda_handler(event, context).
Invoke(i) ==
    /\ pc[i] = "idle"
    /\ \E ev \in Events, ctx \in Contexts :
        /\ event' = [event EXCEPT ![i] = ev]
        /\ context' = [context EXCEPT ![i] = ctx]
    /\ pc' = [pc EXCEPT ![i] = "client"]
    /\ UNCHANGED <<glue_client, response, exc, result, module_globals,
                   requests, jobRun>>

\* glue_client = boto3.client('glue')
GetClientCached(i) ==
    /\ pc[i] = "client"
    /\ \/ /\ "glue_client" \in module_globals
          /\ glue_client' = [glue_client EXCEPT ![i] = TRUE]
          /\ pc' = [pc EXCEPT ![i] = "start"]
          /\ UNCHANGED <<exc, module_globals>>
       \/ /\ "glue_client" \notin module_globals
          /\ glue_client' = [glue_client EXCEPT ![i] = TRUE]
          /\ module_globals' = module_globals \cup {"glue_client"}
          /\ pc' = [pc EXCEPT ![i] = "start"]
          /\ UNCHANGED exc
       \/ /\ "glue_client" \notin module_globals
          /\ \E e \in Raisable :
              exc' = [exc EXCEPT ![i] = e]
          /\ pc' = [pc EXCEPT ![i] = "except"]
          /\ UNCHANGED <<glue_client, module_globals>>
    /\ UNCHANGED <<event, context, response, result, requests, jobRun>>
GetClient(i) ==
    /\ pc[i] = "client"
    /\ \/ /\ glue_client' = [glue_client EXCEPT ![i] = TRUE]
          /\ pc' = [pc EXCEPT ![i] = "start"]
          /\ UNCHANGED exc
       \/ /\ \E e \in Raisable :
              exc' = [exc EXCEPT ![i] = e]
          /\ pc' = [pc EXCEPT ![i] = "except"]
          /\ UNCHANGED glue_client
    /\ UNCHANGED <<event, context, response, result, module_globals,
                   requests, jobRun>>

\* response = glue_client.start_job_run(JobName="ad_etl"), first half: the
\* call hands the request to the service and the thread waits.
StartJobRun(i) ==
    /\ pc[i] = "start"
    /\ Count(i) = 0
    /\ requests' = requests \cup
                      {[inv |-> i, n |-> Count(i) + 1,
                        args |-> StartJobRunRequest(event[i], context[i])]}
    /\ UNCHANGED <<pc, event, context, glue_client, response, exc, result,
                   module_globals, jobRun>>

\* The Glue service accepts a request it received and starts the job run;
\* the caller may have given up on the answer by then.
ServiceAccepts(i) ==
    /\ Count(i) > 0
    /\ jobRun[i] = "NONE"
    /\ jobRun' = [jobRun EXCEPT ![i] = "RUNNING"]
    /\ UNCHANGED <<pc, event, context, glue_client, response, exc, result,
                   module_globals, requests>>

\* Second half, the call returns: the acknowledgement of the service is bound
\* to response.
StartJobRunReturns(i) ==
    /\ pc[i] = "start"
    /\ Count(i) > 0
    /\ jobRun[i] # "NONE"
    /\ \E resp \in Responses :
        response' = [response EXCEPT ![i] = resp]
    /\ pc' = [pc EXCEPT ![i] = "extract"]
    /\ UNCHANGED <<event, context, glue_client, exc, result, module_globals,
                   requests, jobRun>>

\* Second half, the call raises: the service refused, or the answer was lost
\* after the service had accepted.
StartJobRunRaises(i) ==
    /\ pc[i] = "start"
    /\ Count(i) > 0
    /\ \E e \in Raisable :
        exc' = [exc EXCEPT ![i] = e]
    /\ pc' = [pc EXCEPT ![i] = "except"]
    /\ UNCHANGED <<event, context, glue_client, response, result,
                   module_globals, requests, jobRun>>

\* return {"JobRunId": response["JobRunId"], "Message": ...}
ExtractAfterCompletion(i) ==
    /\ pc[i] = "extract"
    /\ jobRun[i] \in {"SUCCEEDED", "FAILED"}
    /\ IF HasKey(response[i], "JobRunId")
         THEN /\ result' = [result EXCEPT ![i] = SuccessResult(response[i])]
              /\ pc' = [pc EXCEPT ![i] = "returned"]
              /\ UNCHANGED exc
         ELSE /\ exc' = [exc EXCEPT ![i] =
                            [type |-> "KeyError", arg |-> "JobRunId"]]
              /\ pc' = [pc EXCEPT ![i] = "except"]
              /\ UNCHANGED result
    /\ UNCHANGED <<event, context, glue_client, response, module_globals,
                   requests, jobRun>>
ExtractWithDefault(i) ==
    /\ pc[i] = "extract"
    /\ result' = [result EXCEPT ![i] =
                    IF HasKey(response[i], "JobRunId")
                      THEN SuccessResult(response[i])
                      ELSE [JobRunId |-> "None", Message |-> MsgStarted]]
    /\ pc' = [pc EXCEPT ![i] = "returned"]
    /\ UNCHANGED <<event, context, glue_client, response, exc,
                   module_globals, requests, jobRun>>
Extract(i) ==
    /\ pc[i] = "extract"
    /\ IF HasKey(response[i], "JobRunId")
         THEN /\ result' = [result EXCEPT ![i] = SuccessResult(response[i])]
              /\ pc' = [pc EXCEPT ![i] = "returned"]
              /\ UNCHANGED exc
         ELSE /\ exc' = [exc EXCEPT ![i] =
                            [type |-> "KeyError", arg |-> "JobRunId"]]
              /\ pc' = [pc EXCEPT ![i] = "except"]
              /\ UNCHANGED result
    /\ UNCHANGED <<event, context, glue_client, response, module_globals,
                   requests, jobRun>>

\* except Exception as e: return {"Error": str(e), "Message": ...}
\* An exception the clause does not match, or one raised by str(e) inside
\* the clause, leaves the handler.
ExceptRetry(i) ==
    /\ pc[i] = "except"
    /\ IF glue_client[i] /\ Count(i) < 2
         THEN /\ pc' = [pc EXCEPT ![i] = "start"]
              /\ requests' = requests \cup
                      {[inv |-> i, n |-> Count(i) + 1,
                        args |-> StartJobRunRequest(event[i], context[i])]}
              /\ UNCHANGED <<exc, result>>
         ELSE /\ IF IsException(exc[i]) /\ ~StrRaises(exc[i])
                   THEN /\ result' = [result EXCEPT ![i] =
                                         FailureResult(exc[i])]
                        /\ pc' = [pc EXCEPT ![i] = "returned"]
                   ELSE /\ pc' = [pc EXCEPT ![i] = "raised"]
                        /\ UNCHANGED result
              /\ UNCHANGED requests
    /\ UNCHANGED <<event, context, glue_client, response, exc,
                   module_globals, jobRun>>
Except(i) ==
    /\ pc[i] = "except"
    /\ IF IsException(exc[i]) /\ ~StrRaises(exc[i])
         THEN /\ result' = [result EXCEPT ![i] = FailureResult(exc[i])]
              /\ pc' = [pc EXCEPT ![i] = "returned"]
         ELSE /\ pc' = [pc EXCEPT ![i] = "raised"]
              /\ UNCHANGED result
    /\ UNCHANGED <<event, context, glue_client, response, exc,
                   module_globals, requests, jobRun>>

\* The Glue service finishes a job run it started; the handler takes no
\* part in this.
JobRunCompletes(i) ==
    /\ jobRun[i] = "RUNNING"
    /\ \E s \in {"SUCCEEDED", "FAILED"} :
        jobRun' = [jobRun EXCEPT ![i] = s]
    /\ UNCHANGED <<pc, event, context, glue_client, response, exc, result,
                   module_globals, requests>>

\* One step of the handler body of invocation i.
HandlerStep(i) ==
    \/ GetClient(i)
    \/ StartJobRun(i)
    \/ StartJobRunReturns(i)
    \/ StartJobRunRaises(i)
    \/ Extract(i)
    \/ Except(i)

Next ==
    \/ \E i \in Invocations : Invoke(i)
    \/ \E i \in Invocations : GetClient(i)
    \/ \E i \in Invocations : StartJobRun(i)
    \/ \E i \in Invocations : ServiceAccepts(i)
    \/ \E i \in Invocations : StartJobRunReturns(i)
    \/ \E i \in Invocations : StartJobRunRaises(i)
    \/ \E i \in Invocations : Extract(i)
    \/ \E i \in Invocations : Except(i)
    \/ \E i \in Invocations : JobRunCompletes(i)

Spec == Init /\ [][Next]_vars

Terminal(i) == pc[i] \in {"returned", "raised"}
\* The service accepted the request of invocation i and started a job run.
Accepted(i) == jobRun[i] # "NONE"
\* The start call of invocation i returned a response.
Responded(i) == response[i] \in Responses

\* ---- C1 ------------------------------------------------------------------
\* C1 as stated: whatever client construction and the start call do, the
\* handler returns a mapping with the key Message and no invocation ends by
\* propagating a failure.
C1_NeverRaises ==
    \A i \in Invocations :
        /\ pc[i] # "raised"
        /\ pc[i] = "returned" => HasKey(result[i], "Message")

\* How far invocation i has got.
Rank(i) ==
    CASE pc[i] = "idle" -> 0
      [] pc[i] = "client" -> 1
      [] pc[i] = "start" -> IF \A q \in requests : q.inv # i THEN 2 ELSE 3
      [] pc[i] = "extract" -> 4
      [] pc[i] = "except" -> 5
      [] Terminal(i) -> 6

\* C1 amended: a returned mapping has the key Message; the handler ends by
\* propagating a failure only when the failure is not an instance of
\* Exception or has no textual description; and the handler terminates: an
\* invoked handler that has not ended always has a step to take, every step
\* of it takes it further, and no step takes it back.
C1_Totality ==
    /\ [](\A i \in Invocations :
            /\ pc[i] = "returned" => HasKey(result[i], "Message")
            /\ pc[i] = "raised" =>
                 exc[i].type = "KeyboardInterrupt" \/ exc[i].arg = BadStr
            /\ pc[i] \in {"client", "start", "extract", "except"} =>
                 ENABLED HandlerStep(i))
    /\ [][\A i \in Invocations :
            /\ Rank(i)' >= Rank(i)
            /\ (pc'[i] # pc[i]
                  \/ \E q \in requests' \ requests : q.inv = i) =>
                 Rank(i)' > Rank(i)]_vars

C1_Witness ==
    \E i, j \in Invocations :
        /\ pc[i] = "returned" /\ ~glue_client[i]
        /\ exc[i].type = "ClientError" /\ HasKey(result[i], "Message")
        /\ pc[j] = "returned" /\ Count(j) = 1
        /\ exc[j].type = "ClientError" /\ HasKey(result[j], "Message")

\* ---- C2 ------------------------------------------------------------------
\* C2: every returned mapping contains exactly one of the keys JobRunId and
\* Error.
C2_ExactlyOneVariant ==
    \A i \in Invocations :
        pc[i] = "returned" =>
            ~(HasKey(result[i], "JobRunId") <=> HasKey(result[i], "Error"))

C2_Witness ==
    \E i, j \in Invocations :
        /\ pc[i] = "returned" /\ HasKey(result[i], "JobRunId")
        /\ pc[j] = "returned" /\ HasKey(result[j], "Error")

\* ---- C3 ------------------------------------------------------------------
\* C3 as stated: exactly one start-job-run request per finished invocation,
\* on every path, the client-acquisition failure path included.
C3_ExactlyOneRequest ==
    \A i \in Invocations : Terminal(i) => Count(i) = 1

\* C3 amended: never more than one request per invocation; a finished
\* invocation issued exactly one if its client was constructed and none if
\* client construction failed.
C3_AtMostOneRequest ==
    \A i \in Invocations :
        /\ Count(i) <= 1
        /\ Terminal(i) => Count(i) = (IF glue_client[i] THEN 1 ELSE 0)

C3_Witness ==
    \E i, j \in Invocations :
        /\ pc[i] = "returned" /\ ~glue_client[i] /\ Count(i) = 0
        /\ pc[j] = "returned" /\ glue_client[j] /\ Count(j) = 1
        /\ exc[j].type = "ClientError"

\* ---- C4 ------------------------------------------------------------------
\* C4: when the service accepted the request and its response carries run
\* identifier r, the handler returns exactly {JobRunId: r, Message: "Glue job
\* for ad_etl started successfully"}.
C4_PassThrough ==
    \A i \in Invocations :
        (Terminal(i) /\ Responded(i) /\ HasKey(response[i], "JobRunId")) =>
            /\ pc[i] = "returned"
            /\ result[i] =
                 [JobRunId |-> response[i]["JobRunId"],
                  Message |-> "Glue job for ad_etl started successfully"]

C4_Witness ==
    \E i, j \in Invocations :
        /\ pc[i] = "returned" /\ HasKey(response[i], "ResponseMetadata")
        /\ HasKey(result[i], "JobRunId") /\ result[i]["JobRunId"] = "jr_123"
        /\ pc[j] = "returned"
        /\ HasKey(result[j], "JobRunId") /\ result[j]["JobRunId"] = "jr_456"

\* ---- C5 ------------------------------------------------------------------
\* C5 as stated: a failure of client construction or of the start call with
\* textual description d always ends in the return of exactly {Error: d,
\* Message: "Failed to start Glue job"}.
C5_AnyFailureStringified ==
    \A i \in Invocations :
        (Terminal(i) /\ exc[i].type \in {"ClientError", "KeyboardInterrupt"}
                     /\ exc[i].arg \in Descriptions) =>
            /\ pc[i] = "returned"
            /\ result[i] = [Error |-> exc[i].arg,
                            Message |-> "Failed to start Glue job"]

\* C5 amended: the same for a failure that is an instance of Exception,
\* wherever it was raised; the textual description of a KeyError is the
\* repr of its argument.
C5_ExceptionStringified ==
    \A i \in Invocations :
        (Terminal(i) /\ exc[i].type \in {"ClientError", "KeyError"}
                     /\ exc[i].arg \in Descriptions) =>
            /\ pc[i] = "returned"
            /\ result[i] =
                 [Error |-> CASE exc[i].type = "ClientError" -> exc[i].arg
                              [] exc[i].arg = "AccessDenied" ->
                                    "'AccessDenied'"
                              [] exc[i].arg = "EntityNotFoundException" ->
                                    "'EntityNotFoundException'",
                  Message |-> "Failed to start Glue job"]

C5_Witness ==
    \E i, j \in Invocations :
        /\ pc[i] = "returned" /\ ~glue_client[i]
        /\ pc[j] = "returned" /\ glue_client[j]
        /\ exc[i].type = "ClientError" /\ exc[i] = exc[j]
        /\ HasKey(result[i], "Error") /\ result[i]["Error"] = "AccessDenied"
        /\ result[i] = result[j]

\* ---- C6 ------------------------------------------------------------------
\* C6: every request the service receives names the job "ad_etl", whatever
\* the event and the context of the invocation that issued it.
C6_JobNameConstant ==
    \A q \in requests : q.args = [JobName |-> "ad_etl"]

C6_Witness ==
    \E q, r \in requests :
        /\ event[q.inv] # event[r.inv]
        /\ q.args = r.args

\* ---- C7 ------------------------------------------------------------------
\* C7: once an invocation has a failure in flight, no step adds a request of
\* that invocation, and no step takes an invocation past one request.
C7_NoRetry ==
    [][\A i \in Invocations :
          /\ exc[i] # NoExc => Count(i)' = Count(i)
          /\ Count(i)' <= 1]_vars

C7_Witness ==
    \E i \in Invocations :
        /\ pc[i] = "returned" /\ exc[i].type = "ClientError"
        /\ glue_client[i] /\ Count(i) = 1 /\ HasKey(result[i], "Error")

\* ---- C8 ------------------------------------------------------------------
\* C8: once the service has accepted the start request, the return of the
\* call and then the return step of the handler are enabled while the job
\* run is still running.
C8_NoWaitForCompletion ==
    \A i \in Invocations :
        /\ (pc[i] = "start" /\ jobRun[i] = "RUNNING") =>
              ENABLED StartJobRunReturns(i)
        /\ (pc[i] = "extract" /\ jobRun[i] = "RUNNING") =>
              ENABLED Extract(i)

C8_Witness ==
    \E i \in Invocations :
        /\ pc[i] = "returned" /\ jobRun[i] = "RUNNING"
        /\ HasKey(result[i], "JobRunId")

\* ---- C9 ------------------------------------------------------------------
\* C9: under every interleaving, a step of one invocation leaves the frame
\* of every other invocation and the module-level state unchanged, and two
\* returned invocations with the same own outcomes (exception, response)
\* have the same result.
C9_Independent ==
    [][/\ module_globals' = module_globals
       /\ Cardinality({i \in Invocations : frame(i)' # frame(i)}) <= 1
       /\ \A i, j \in Invocations :
            (i < j /\ pc'[i] = "returned" /\ pc'[j] = "returned"
               /\ exc'[i] = exc'[j] /\ response'[i] = response'[j])
              => result'[i] = result'[j]]_vars

C9_Witness ==
    \E i, j \in Invocations :
        /\ pc[i] = "returned" /\ pc[j] = "returned"
        /\ HasKey(result[i], "JobRunId") /\ HasKey(result[j], "Error")
        /\ Count(i) = 1 /\ Count(j) = 1

\* ---- C10 -----------------------------------------------------------------
\* C10: an accepted request whose response lacks JobRunId ends in the
\* Failure variant carrying the description of the KeyError although the
\* request was issued and the job run started; a returned Success variant
\* implies the request was accepted.
C10_AcceptedButFailure ==
    \A i \in Invocations :
        /\ (Terminal(i) /\ Responded(i)
                        /\ ~HasKey(response[i], "JobRunId")) =>
              /\ pc[i] = "returned"
              /\ Accepted(i)
              /\ result[i] = [Error |-> "'JobRunId'",
                              Message |-> "Failed to start Glue job"]
              /\ Count(i) = 1
        /\ (pc[i] = "returned" /\ HasKey(result[i], "JobRunId")) =>
              Accepted(i) /\ Count(i) = 1

C10_Witness ==
    \E i \in Invocations :
        /\ pc[i] = "returned" /\ HasKey(result[i], "Error")
        /\ Responded(i)
        /\ jobRun[i] \in {"RUNNING", "SUCCEEDED", "FAILED"}
        /\ Count(i) = 1
====
